---- MODULE Spec2Model ----
(***************************************************************************)
(* Task lifecycle + history logging of the todo backend                    *)
(* (backend/src/services/task_service.py and its FastAPI routes), and the  *)
(* history and statistics queries (services/history_service.py).           *)
(*                                                                         *)
(* The committed database (tables tasks and task_history) is shared by     *)
(* concurrent requests.  Every request owns one SQLAlchemy session; a      *)
(* step of the model is one database round trip of one request (a SELECT,  *)
(* or a flush + COMMIT), together with the Python code around it.          *)
(*                                                                         *)
(* Encoding of Python values:                                              *)
(*   - a str is a tuple of one-character strings, <<>> is "";  the string  *)
(*     literals of the source are kept as one token each ("Task created")  *)
(*   - None (for str values) is the tuple None below, different from       *)
(*     every str; a NULL DateTime column is NoTime                         *)
(*   - utcnow() is the variable now.  A flush + COMMIT takes longer than   *)
(*     the clock's resolution: every step that commits advances now.       *)
(***************************************************************************)
EXTENDS Integers, Sequences, FiniteSets, TLC

VARIABLES tasks, history, now, nextId, nextHid, req, resp, prev, deleted, race

vars == <<tasks, history, now, nextId, nextHid, req, resp, prev, deleted, race>>

-----------------------------------------------------------------------------
(* Bounds *)

\* the clock's last tick; every flush + COMMIT takes one, from InitClock on
MaxClock == 8
\* the clock's last tick when requests race
MaxRaceClock == 7
\* task identifiers that can be issued (uuid4 values, never reused)
MaxTasks == 3
\* requests in flight at the same time
MaxSlots == 2

Slots == 1..MaxSlots

-----------------------------------------------------------------------------
(* Values *)

None == <<"<None>">>
NoTime == -1
NoRow == [id |-> 0]
\* offset: int = Query(None): no offset given
NoOffset == -1

Users == {"u1", "u2"}

\* a str of n characters
Chars(n) == [i \in 1..n |-> "c"]

\* request bodies tried, <<title, description>>: two that are accepted, and
\* titles that are empty, blank and too long, and a description too long
CreateBodies ==
    {<<<<"a">>, None>>, <<<<"b">>, <<"x">>>>,
     <<<<>>, None>>, <<<<" ">>, <<"x">>>>, <<Chars(256), None>>,
     <<<<"a">>, Chars(5001)>>}
UpdateBodies ==
    {<<None, None>>, <<None, <<>>>>, <<None, <<"x">>>>,
     <<<<"a">>, None>>, <<<<"b">>, <<"x">>>>}

\* Python truthiness of an Optional[str]: None and "" are falsy
Truthy(s) == s # None /\ s # <<>>

\* variant: a default of True for is_completed, with its timestamp
TaskDone(id, title, description, user_id, t) ==
    [id |-> id, title |-> title, description |-> description,
     is_completed |-> TRUE, created_at |-> t, updated_at |-> t,
     completed_at |-> t, user_id |-> user_id]

CREATED == "CREATED"
UPDATED == "UPDATED"
DELETED == "DELETED"
COMPLETED == "COMPLETED"
INCOMPLETED == "INCOMPLETED"
ActionType == {CREATED, UPDATED, DELETED, COMPLETED, INCOMPLETED}

-----------------------------------------------------------------------------
(* Schema: models/task.py, models/task_history.py, schemas/task.py *)

\* a new Task(title, description, user_id) as INSERTed: column defaults
Task(id, title, description, user_id, t) ==
    [id |-> id, title |-> title, description |-> description,
     is_completed |-> FALSE, created_at |-> t, updated_at |-> t,
     completed_at |-> NoTime, user_id |-> user_id]

TaskHistory(history_id, task_id, action, description, t) ==
    [history_id |-> history_id, task_id |-> task_id, action_type |-> action,
     description |-> description, timestamp |-> t]

\* ' ' is the only whitespace character of the strings tried
RECURSIVE LStrip(_)
LStrip(s) == IF s # <<>> /\ Head(s) = " " THEN LStrip(Tail(s)) ELSE s

RECURSIVE RStrip(_)
RStrip(s) == IF s # <<>> /\ s[Len(s)] = " " THEN RStrip(SubSeq(s, 1, Len(s) - 1)) ELSE s

Trim(s) == RStrip(LStrip(s))

MaxTitleLen == 255
MaxDescriptionLen == 5000

\* CHECK (length(trim(title)) > 0)
TaskTitleNotEmpty(row) == Len(Trim(row.title)) > 0

\* CHECK (length(description) <= 5000); a NULL description passes
TaskDescriptionMaxLength(row) ==
    row.description = None \/ Len(row.description) <= MaxDescriptionLen

\* variant: the CHECK written for completed tasks only
CompletedAtOneSided(row) == row.is_completed => row.completed_at # NoTime

\* CHECK ((is_completed AND completed_at IS NOT NULL) OR
\*        (NOT is_completed AND completed_at IS NULL))
TaskCompletedAtConsistency(row) ==
    \/ row.is_completed /\ row.completed_at # NoTime
    \/ ~row.is_completed /\ row.completed_at = NoTime

\* the row satisfies title String(255) NOT NULL and the table's CHECKs
TaskTableArgs(row) ==
    /\ row.title # None
    /\ Len(row.title) <= MaxTitleLen
    /\ TaskTitleNotEmpty(row)
    /\ TaskDescriptionMaxLength(row)
    /\ TaskCompletedAtConsistency(row)

\* pydantic TaskCreate: title required, 1..255; description optional, <= 5000
TaskCreate(title, description) ==
    /\ title # None /\ Len(title) >= 1 /\ Len(title) <= MaxTitleLen
    /\ description = None \/ Len(description) <= MaxDescriptionLen

\* the fields a pydantic validation error of TaskCreate names (loc)
TaskCreateErrors(title, description) ==
    {f \in {"title"} : title = None \/ Len(title) < 1 \/ Len(title) > MaxTitleLen}
    \cup {f \in {"description"} :
             description # None /\ Len(description) > MaxDescriptionLen}

\* pydantic TaskUpdate: both optional, same lengths
TaskUpdate(title, description) ==
    /\ title = None \/ (Len(title) >= 1 /\ Len(title) <= MaxTitleLen)
    /\ description = None \/ Len(description) <= MaxDescriptionLen

\* src.utils.validators: title non-empty after trim and <= 255
validate_title(title) ==
    title # None /\ Len(Trim(title)) > 0 /\ Len(title) <= MaxTitleLen

\* src.utils.validators: description absent or <= 5000
validate_description(description) ==
    description = None \/ Len(description) <= MaxDescriptionLen

-----------------------------------------------------------------------------
(* Store queries *)

\* db.query(Task).filter(Task.id == task_id).first()
TaskById(store, task_id) ==
    IF \E t \in store : t.id = task_id
    THEN CHOOSE t \in store : t.id = task_id
    ELSE NoRow

\* variant: a query filtered by owner, which hides the tasks of other users
get_task_filtered(store, task_id, user_id) ==
    LET task == TaskById(store, task_id) IN
    IF task = NoRow \/ task.user_id # user_id THEN "none" ELSE "ok"

\* TaskService.get_task: "none" (returns None), "forbidden" (raises 403), "ok"
get_task(store, task_id, user_id) ==
    LET task == TaskById(store, task_id) IN
    IF task = NoRow THEN "none"
    ELSE IF task.user_id # user_id THEN "forbidden"
    ELSE "ok"

\* variant: ORDER BY is_completed ASC, created_at ASC
ListOrderOldestFirst(a, b) ==
    \/ ~a.is_completed /\ b.is_completed
    \/ a.is_completed = b.is_completed /\ a.created_at < b.created_at

\* ORDER BY is_completed ASC, created_at DESC: a sorts before b
ListOrder(a, b) ==
    \/ ~a.is_completed /\ b.is_completed
    \/ a.is_completed = b.is_completed /\ a.created_at > b.created_at

RECURSIVE OrderBy(_)
OrderBy(rows) ==
    IF rows = {} THEN <<>>
    ELSE LET first == CHOOSE a \in rows : \A b \in rows \ {a} : ~ListOrder(b, a)
         IN <<first>> \o OrderBy(rows \ {first})

\* TaskService.get_all_tasks
get_all_tasks(store, user_id) ==
    OrderBy({t \in store : t.user_id = user_id})

-----------------------------------------------------------------------------
(* services/history_service.py *)

\* .order_by(desc(TaskHistory.timestamp))
RECURSIVE OrderByTimestampDesc(_)
OrderByTimestampDesc(rows) ==
    IF rows = {} THEN <<>>
    ELSE LET first == CHOOSE a \in rows : \A b \in rows : a.timestamp >= b.timestamp
         IN <<first>> \o OrderByTimestampDesc(rows \ {first})

\* the filters of get_history_paginated: `if task_id:` (task_id 0 is no
\* UUID given) and `if action_type:` (None and "" are falsy)
Matching(rows, task_id, action_type) ==
    {h \in rows : /\ task_id # 0 => h.task_id = task_id
                  /\ Truthy(action_type) => <<h.action_type>> = action_type}

\* query.offset(first).limit(limit).all()
OffsetLimit(ordered, first, limit) ==
    SubSeq(ordered, first + 1,
           IF first + limit < Len(ordered) THEN first + limit ELSE Len(ordered))

\* variant: an offset of 0 is taken for no offset (`if offset:`)
OffsetIfTruthy(page, limit, offset) ==
    IF offset # NoOffset /\ offset # 0 THEN offset ELSE (page - 1) * limit

\* the first row of the slice: the offset when one is given, else the page's
SliceStart(page, limit, offset) ==
    IF offset # NoOffset THEN offset ELSE (page - 1) * limit

\* current_page
CurrentPage(page, limit, offset) ==
    IF offset # NoOffset THEN (offset \div limit) + 1 ELSE page

\* variant: total_pages rounds down
TotalPagesFloor(total_count, limit) == total_count \div limit

\* total_pages = (total_count + limit - 1) // limit
TotalPages(total_count, limit) == (total_count + limit - 1) \div limit

\* HistoryService.get_history_paginated: the items and the pagination
get_history_paginated(rows, page, limit, offset, task_id, action_type) ==
    LET matching == Matching(rows, task_id, action_type)
        total_count == Cardinality(matching)
        current_page == CurrentPage(page, limit, offset)
        total_pages == TotalPages(total_count, limit)
    IN [items |-> OffsetLimit(OrderByTimestampDesc(matching),
                              SliceStart(page, limit, offset), limit),
        pagination |->
           [total_count |-> total_count, total_pages |-> total_pages,
            current_page |-> current_page, page_size |-> limit,
            has_next |-> current_page < total_pages,
            has_prev |-> current_page > 1]]

-----------------------------------------------------------------------------
(* Requests *)

\* the query parameters of GET /history, when there are none
NoArgs == [page |-> 0, limit |-> 0, offset |-> NoOffset, action_type |-> None]

\* the pagination of a response that has none
NoPagination ==
    [total_count |-> 0, total_pages |-> 0, current_page |-> 0, page_size |-> 0,
     has_next |-> FALSE, has_prev |-> FALSE]

\* the statistics of a response that has none
NoStats ==
    [tasks_created_this_week |-> 0, tasks_completed_this_week |-> 0,
     total_completed |-> 0, total_incomplete |-> 0,
     week_start |-> NoTime, week_end |-> NoTime, total_tasks |-> 0]

\* A request slot: the route's arguments (args: those of GET /history), the session's copy of the task as
\* loaded (task) and as modified in memory (attrs), the position in the
\* handler (pc) and the response (res, view, and what the response says
\* beside the rows: the fields at fault in meta, pagination, stats).  logged, hist_failed, hid0 and tasks0 record what
\* the request did and the tables it started from.
Idle ==
    [pc |-> "idle", op |-> "none", task_id |-> 0, user_id |-> "",
     title |-> None, description |-> None, task |-> NoRow, attrs |-> NoRow,
     res |-> "none", view |-> <<>>, meta |-> {}, args |-> NoArgs,
     pagination |-> NoPagination, stats |-> NoStats, logged |-> {},
     hist_failed |-> FALSE, hid0 |-> 0, tasks0 |-> {}]

Request(op, task_id, title, description, user_id) ==
    [Idle EXCEPT !.pc = "start", !.op = op, !.task_id = task_id,
                 !.user_id = user_id, !.title = title,
                 !.description = description, !.hid0 = nextHid,
                 !.tasks0 = tasks]

\* the response leaves the handler
Respond(q, res, view) == [q EXCEPT !.pc = "done", !.res = res, !.view = view]

\* a successful mutation, remembered while the next request is served
Mutation(q) ==
    q.res = "ok" /\ q.op \in {"create", "update", "delete", "complete", "incomplete"}

\* Slot r goes on as q.  When q has responded the slot is free again and
\* resp is the response, until the caller has received it; deleted collects
\* the tasks a DELETE has reported as deleted.
Put(r, q) ==
    /\ resp = Idle
    /\ UNCHANGED <<prev, race>>
    /\ deleted' = IF q.pc = "done" /\ q.op = "delete" /\ q.res = "ok"
                  THEN deleted \cup {q.task_id} ELSE deleted
    /\ IF q.pc = "done"
       THEN req' = [req EXCEPT ![r] = Idle] /\ resp' = q
       ELSE req' = [req EXCEPT ![r] = q] /\ UNCHANGED resp

\* The caller receives the response; prev is the response the next request
\* follows, when it was a mutation.
Receive ==
    /\ resp # Idle
    /\ resp' = Idle
    /\ prev' = IF Mutation(resp) THEN resp ELSE Idle
    /\ UNCHANGED <<tasks, history, now, nextId, nextHid, req, deleted, race>>

\* A new request arrives and is served on the first free slot; requests
\* come one after the other unless they race.
Arrive(r) ==
    /\ req[r].pc = "idle"
    /\ \A s \in 1..(r - 1) : req[s].pc # "idle"
    /\ race \/ r = 1

\* a step that flushes and commits
Tick == now < (IF race THEN MaxRaceClock ELSE MaxClock) /\ now' = now + 1

\* The database when the requests modelled start arriving, at InitClock:
\* empty, or as the operations below leave an empty database after
\*   u1: POST /tasks {title: "a"}                           (times 0 and 1)
\*   u1: PATCH /tasks/1/complete                            (times 2 and 3)
Task1 == Task(1, <<"a">>, None, "u1", 0)

Created1 == TaskHistory(1, 1, CREATED, <<"Task created">>, 1)

Completed1 == TaskHistory(2, 1, COMPLETED, <<"Task marked as completed">>, 3)

InitClock == Completed1.timestamp + 1

InitTables ==
    { <<{}, {}>>,
      <<{Task1}, {Created1}>>,
      <<{[Task1 EXCEPT !.is_completed = TRUE, !.completed_at = 2, !.updated_at = 2]},
        {Created1, Completed1}>> }

Start ==
    /\ \E db \in InitTables :
          /\ tasks = db[1]
          /\ history = db[2]
          /\ nextId = Cardinality(db[1]) + 1
          /\ nextHid = Cardinality(db[2]) + 1
    /\ now = InitClock
    /\ req = [r \in Slots |-> Idle]
    /\ resp = Idle
    /\ prev = Idle
    /\ deleted = {}

\* one request at a time
Init == Start /\ race = FALSE

\* requests racing on the shared database
InitRace == Start /\ race = TRUE

-----------------------------------------------------------------------------
(* POST /tasks: api/v1/tasks.py create_task, TaskService.create_task *)

\* variant: the smallest identifier not in use, reissued after a delete
NewIdReused == CHOOSE i \in 1..nextId : TaskById(tasks, i) = NoRow

\* id = Column(..., default=uuid.uuid4): an identifier never issued before
NewId == nextId

\* variant: the route does not call validate_title
CreateTaskNoTitleCheck(r, title, description, user_id) ==
    LET q == Request("create", NewId, title, description, user_id)
        task == Task(NewId, title, description, user_id, now)
        errors == TaskCreateErrors(title, description)
    IN
    /\ Arrive(r)
    /\ UNCHANGED <<history, nextHid>>
    /\ IF ~TaskCreate(title, description)
       THEN Put(r, Respond([q EXCEPT !.meta = errors], "invalid", <<>>))
            /\ UNCHANGED <<tasks, nextId, now>>
       ELSE IF ~validate_description(description)
       THEN Put(r, Respond(q, "invalid_description", <<>>))
            /\ UNCHANGED <<tasks, nextId, now>>
       ELSE IF ~TaskTableArgs(task)
       THEN Put(r, Respond(q, "error", <<>>)) /\ UNCHANGED <<tasks, nextId>> /\ Tick
       ELSE /\ nextId <= MaxTasks
            /\ Tick
            /\ tasks' = tasks \cup {task}
            /\ nextId' = nextId + 1
            /\ Put(r, [q EXCEPT !.pc = "saved", !.task = task, !.attrs = task])

\* A body pydantic rejects answers 422 with the fields at fault; then the
\* route's own checks, each with a message that starts with the field.
CreateTask(r, title, description, user_id) ==
    LET q == Request("create", NewId, title, description, user_id)
        task == Task(NewId, title, description, user_id, now)
        errors == TaskCreateErrors(title, description)
    IN
    /\ Arrive(r)
    /\ UNCHANGED <<history, nextHid>>
    /\ IF ~TaskCreate(title, description)
       THEN Put(r, Respond([q EXCEPT !.meta = errors], "invalid", <<>>))
            /\ UNCHANGED <<tasks, nextId, now>>
       ELSE IF ~validate_title(title)
       THEN Put(r, Respond(q, "invalid_title", <<>>)) /\ UNCHANGED <<tasks, nextId, now>>
       ELSE IF ~validate_description(description)
       THEN Put(r, Respond(q, "invalid_description", <<>>))
            /\ UNCHANGED <<tasks, nextId, now>>
       ELSE IF ~TaskTableArgs(task)
       THEN Put(r, Respond(q, "error", <<>>)) /\ UNCHANGED <<tasks, nextId>> /\ Tick
       ELSE \* db.add(task); db.commit()
            /\ nextId <= MaxTasks
            /\ Tick
            /\ tasks' = tasks \cup {task}
            /\ nextId' = nextId + 1
            /\ Put(r, [q EXCEPT !.pc = "saved", !.task = task, !.attrs = task])

-----------------------------------------------------------------------------
(* GET /tasks, GET /tasks/{id} *)

ListTasks(r, user_id) ==
    LET q == Request("list", 0, None, None, user_id) IN
    /\ Arrive(r)
    /\ Put(r, Respond(q, "ok", get_all_tasks(tasks, user_id)))
    /\ UNCHANGED <<tasks, history, nextId, nextHid, now>>

\* the outcome of the service's get_task as the routes report it
Resolve(q) ==
    LET found == get_task(tasks, q.task_id, q.user_id) IN
    IF found = "none" THEN Respond(q, "not_found", <<>>)
    ELSE IF found = "forbidden" THEN Respond(q, "forbidden", <<>>)
    ELSE [q EXCEPT !.pc = "loaded", !.task = TaskById(tasks, q.task_id),
                   !.attrs = TaskById(tasks, q.task_id)]

GetTask(r, task_id, user_id) ==
    LET q == Resolve(Request("get", task_id, None, None, user_id)) IN
    /\ Arrive(r)
    /\ Put(r, IF q.pc = "loaded" THEN Respond(q, "ok", <<q.task>>) ELSE q)
    /\ UNCHANGED <<tasks, history, nextId, nextHid, now>>

-----------------------------------------------------------------------------
(* PUT /tasks/{id}: api/v1/tasks.py update_task, TaskService.update_task *)

\* variant: the description is assigned whether it was supplied or not
SetFieldsAlways(task, title, description, t) ==
    [task EXCEPT !.title = IF title # None THEN title ELSE @,
                 !.description = description,
                 !.updated_at = t]

\* update_task's assignments to the loaded task: the fields supplied, and
\* updated_at
SetFields(task, title, description, t) ==
    [task EXCEPT !.title = IF title # None THEN title ELSE @,
                 !.description = IF description # None THEN description ELSE @,
                 !.updated_at = t]

UpdateTask(r, task_id, title, description, user_id) ==
    LET q == Request("update", task_id, title, description, user_id)
        found == Resolve(q)
    IN
    /\ Arrive(r)
    /\ UNCHANGED <<tasks, history, nextId, nextHid, now>>
    /\ Put(r,
         IF ~TaskUpdate(title, description) THEN Respond(q, "invalid", <<>>)
         ELSE IF ~Truthy(title) /\ ~Truthy(description)
         THEN Respond(q, "no_fields", <<>>)
         ELSE IF Truthy(title) /\ ~validate_title(title)
         THEN Respond(q, "invalid_title", <<>>)
         ELSE IF description # None /\ ~validate_description(description)
         THEN Respond(q, "invalid_description", <<>>)
         ELSE IF found.pc # "loaded" THEN found
         ELSE [found EXCEPT !.attrs = SetFields(@, title, description, now)])

-----------------------------------------------------------------------------
(* PATCH /tasks/{id}/complete, /incomplete *)

MarkComplete(r, task_id, user_id) ==
    LET found == Resolve(Request("complete", task_id, None, None, user_id)) IN
    /\ Arrive(r)
    /\ UNCHANGED <<tasks, history, nextId, nextHid, now>>
    /\ Put(r,
         IF found.pc # "loaded" THEN found
         ELSE [found EXCEPT !.attrs.is_completed = TRUE,
                            !.attrs.completed_at = now,
                            !.attrs.updated_at = now])

MarkIncomplete(r, task_id, user_id) ==
    LET found == Resolve(Request("incomplete", task_id, None, None, user_id)) IN
    /\ Arrive(r)
    /\ UNCHANGED <<tasks, history, nextId, nextHid, now>>
    /\ Put(r,
         IF found.pc # "loaded" THEN found
         ELSE [found EXCEPT !.attrs.is_completed = FALSE,
                            !.attrs.completed_at = NoTime,
                            !.attrs.updated_at = now])

\* The unit of work's UPDATE: only the columns whose value differs from the
\* value loaded are SET, on the row as it is committed now.
Flush(row, loaded, attrs) ==
    [c \in DOMAIN row |-> IF attrs[c] # loaded[c] THEN attrs[c] ELSE row[c]]

\* db.commit() of update_task, mark_complete, mark_incomplete.  The UPDATE
\* matches no row when the task was deleted meanwhile (StaleDataError); a
\* CHECK violation is an IntegrityError.  Both end the request with a 500
\* and nothing committed.
Commit(r) ==
    LET q == req[r]
        row == TaskById(tasks, q.task_id)
        new == Flush(row, q.task, q.attrs)
    IN
    /\ q.pc = "loaded"
    /\ q.op \in {"update", "complete", "incomplete"}
    /\ Tick
    /\ UNCHANGED <<history, nextId, nextHid>>
    /\ IF row = NoRow \/ ~TaskTableArgs(new)
       THEN /\ Put(r, Respond(q, "error", <<>>))
            /\ UNCHANGED tasks
       ELSE /\ tasks' = (tasks \ {row}) \cup {new}
            /\ Put(r, [q EXCEPT !.pc = "saved"])

-----------------------------------------------------------------------------
(* DELETE /tasks/{id} *)

\* variant: the DELETED row is written before the result of get_task is
\* looked at
DeleteTaskLogFirst(r, task_id, user_id) ==
    LET row == TaskById(tasks, task_id) IN
    /\ Arrive(r)
    /\ UNCHANGED <<tasks, nextId, now>>
    /\ IF row = NoRow
       THEN UNCHANGED <<history, nextHid>>
       ELSE /\ history' = history \cup
                  {TaskHistory(nextHid, task_id, DELETED,
                               <<"Task deleted: ">> \o row.title, now)}
            /\ nextHid' = nextHid + 1
    /\ Put(r, Resolve(Request("delete", task_id, None, None, user_id)))

DeleteTask(r, task_id, user_id) ==
    /\ Arrive(r)
    /\ UNCHANGED <<tasks, history, nextId, nextHid, now>>
    /\ Put(r, Resolve(Request("delete", task_id, None, None, user_id)))

\* variant: the foreign key without ON DELETE CASCADE, and not enforced
CascadeNone(rows, task_id) == rows

\* variant: the rows of every task go with it
CascadeAll(rows, task_id) == {}

\* ForeignKey("tasks.id", ondelete="CASCADE"): the rows left in task_history
\* when the task is deleted
Cascade(rows, task_id) == {h \in rows : h.task_id # task_id}

\* variant: the task is deleted as soon as it is resolved, before
\* log_history is called
DeleteCommitEarly(r, raises) ==
    LET q == req[r]
        row == TaskById(tasks, q.task_id)
    IN
    /\ q.pc = "loaded" /\ q.op = "delete"
    /\ ~raises /\ row # NoRow
    /\ Tick
    /\ UNCHANGED <<nextId, nextHid>>
    /\ tasks' = tasks \ {row}
    /\ history' = Cascade(history, q.task_id)
    /\ Put(r, Respond(q, "ok", <<>>))

\* db.delete(task); db.commit().  ON DELETE CASCADE removes the task's
\* history rows with it.  When another request has deleted the row already,
\* the DELETE matches nothing: the session either reports the stale object
\* (500) or goes on, and the tables stay as they are.
DeleteCommit(r, raises) ==
    LET q == req[r]
        row == TaskById(tasks, q.task_id)
    IN
    /\ q.pc = "logged"
    /\ Tick
    /\ UNCHANGED <<nextId, nextHid>>
    /\ IF row = NoRow
       THEN /\ Put(r, Respond(q, IF raises THEN "error" ELSE "ok", <<>>))
            /\ UNCHANGED <<tasks, history>>
       ELSE /\ ~raises
            /\ tasks' = tasks \ {row}
            /\ history' = Cascade(history, q.task_id)
            /\ Put(r, Respond(q, "ok", <<>>))

-----------------------------------------------------------------------------
(* TaskService.log_history *)

RECURSIVE Join(_, _)
\* sep.join(parts)
Join(sep, parts) ==
    IF parts = <<>> THEN <<>>
    ELSE IF Len(parts) = 1 THEN parts[1]
    ELSE parts[1] \o sep \o Join(sep, Tail(parts))

\* update_task's change_details, joined
ChangeDetails(title, description, old_title, old_desc) ==
    LET t == IF Truthy(title) /\ title # old_title
             THEN << <<"title: '">> \o old_title \o <<"' -> '">> \o title \o <<"'">> >>
             ELSE <<>>
        d == IF description # old_desc
             THEN << <<"description updated">> >>
             ELSE <<>>
    IN Join(<<"; ">>, t \o d)

\* variant: mark_incomplete logs what mark_complete logs
LoggedCopied(q) ==
    CASE q.op = "create" -> <<CREATED, <<"Task created">> >>
      [] q.op = "update" ->
           <<UPDATED, ChangeDetails(q.title, q.description,
                                    q.task.title, q.task.description)>>
      [] q.op = "delete" -> <<DELETED, <<"Task deleted: ">> \o q.task.title>>
      [] q.op \in {"complete", "incomplete"} ->
           <<COMPLETED, <<"Task marked as completed">> >>

\* the action type and description each operation logs
Logged(q) ==
    CASE q.op = "create" -> <<CREATED, <<"Task created">> >>
      [] q.op = "update" ->
           <<UPDATED, ChangeDetails(q.title, q.description,
                                    q.task.title, q.task.description)>>
      [] q.op = "delete" -> <<DELETED, <<"Task deleted: ">> \o q.task.title>>
      [] q.op = "complete" -> <<COMPLETED, <<"Task marked as completed">> >>
      [] q.op = "incomplete" -> <<INCOMPLETED, <<"Task marked as incomplete">> >>

\* variant: default=datetime.utcnow() is evaluated once, when the model loads
log_history_stale(task_id, action, description) ==
    TaskHistory(nextHid, task_id, action, description, InitClock)

\* the row log_history adds
log_history(task_id, action, description) ==
    TaskHistory(nextHid, task_id, action, description, now)

\* db.refresh(task) (not in delete_task), then log_history: db.add(history);
\* db.commit().  The task row is gone when another request deleted it: the
\* refresh, or the INSERT's foreign key, raises.  The write itself can fail
\* (fails): the request ends with a 500 and the row is not committed.  This
\* is also what happens if the TaskHistory constructor rejects the user_id
\* keyword log_history passes: models/task_history.py declares no such
\* column, and whether the declarative Base accepts it is not in the sources.
\* After it create/update/complete/incomplete serialise the task they return.
LogHistory(r, fails) ==
    LET q == req[r]
        row == TaskById(tasks, q.task_id)
        h == log_history(q.task_id, Logged(q)[1], Logged(q)[2])
    IN
    /\ q.pc = IF q.op = "delete" THEN "loaded" ELSE "saved"
    /\ Tick
    /\ UNCHANGED <<tasks, nextId>>
    /\ IF row = NoRow
       THEN /\ ~fails
            /\ Put(r, Respond(q, "error", <<>>))
            /\ UNCHANGED <<history, nextHid>>
       ELSE IF fails
       THEN /\ Put(r, Respond([q EXCEPT !.hist_failed = TRUE], "error", <<>>))
            /\ UNCHANGED <<history, nextHid>>
       ELSE /\ history' = history \cup {h}
            /\ nextHid' = nextHid + 1
            /\ Put(r, IF q.op = "delete"
                      THEN [q EXCEPT !.pc = "logged", !.logged = @ \cup {h}]
                      ELSE Respond([q EXCEPT !.logged = @ \cup {h}], "ok", <<row>>))

-----------------------------------------------------------------------------
(* GET /history: api/v1/history.py get_history *)

\* the Query(...) constraints of the route: page >= 1, 1 <= limit <= 100,
\* offset >= 0 when given
HistoryQuery(page, limit, offset) ==
    page >= 1 /\ limit >= 1 /\ limit <= 100 /\ (offset = NoOffset \/ offset >= 0)

\* src.utils.validators: page >= 1 and 1 <= limit <= 100
validate_pagination(page, limit) == page >= 1 /\ limit >= 1 /\ limit <= 100

HistoryRequest(op, page, limit, offset, task_id, action_type, user_id) ==
    [Request(op, task_id, None, None, user_id) EXCEPT
        !.args = [page |-> page, limit |-> limit, offset |-> offset,
                  action_type |-> action_type]]

\* HistoryService.get_history_paginated(db, page, limit, offset, task_id,
\* action_type), called for user_id: the service is not told who asks.
GetHistoryPaginated(r, page, limit, offset, task_id, action_type, user_id) ==
    LET q == HistoryRequest("history", page, limit, offset, task_id,
                            action_type, user_id)
        result == get_history_paginated(history, page, limit, offset, task_id,
                                        action_type)
    IN
    /\ Arrive(r)
    /\ HistoryQuery(page, limit, offset)
    /\ UNCHANGED <<tasks, history, nextId, nextHid, now>>
    /\ Put(r, Respond([q EXCEPT !.pagination = result.pagination],
                      "ok", result.items))

\* The route.  Its call passes seven positional arguments (db, user_id,
\* page, limit, offset, task_id, action_type) to the six parameters of
\* get_history_paginated: Python raises TypeError before the service runs,
\* and every request the checks let through is answered 500.
GetHistory(r, page, limit, offset, task_id, action_type, user_id) ==
    LET q == HistoryRequest("get_history", page, limit, offset, task_id,
                            action_type, user_id)
    IN
    /\ Arrive(r)
    /\ UNCHANGED <<tasks, history, nextId, nextHid, now>>
    /\ Put(r, IF ~HistoryQuery(page, limit, offset)
              THEN Respond(q, "invalid", <<>>)
              ELSE IF ~validate_pagination(page, limit)
              THEN Respond(q, "invalid_limit", <<>>)
              ELSE Respond(q, "error", <<>>))

-----------------------------------------------------------------------------
(* GET /stats/weekly: api/v1/stats.py, HistoryService.get_weekly_stats *)

\* the clock's units in a week
WeekLen == 7 * 24 * 3600

\* src.utils.timestamps: the week of instant t, from Monday 00:00:00 to
\* Sunday 23:59:59; instant 0 is a Monday 00:00:00
get_week_boundaries(t) ==
    <<t - (t % WeekLen), t - (t % WeekLen) + WeekLen - 1>>

\* variant: the window opens after week_start
CreatedAfterStart(t, week_start, week_end) ==
    t.created_at > week_start /\ t.created_at <= week_end

\* filter(Task.created_at >= week_start, Task.created_at <= week_end)
CreatedThisWeek(t, week_start, week_end) ==
    t.created_at >= week_start /\ t.created_at <= week_end

\* filter(Task.completed_at >= week_start, Task.completed_at <= week_end);
\* a NULL completed_at satisfies no comparison
CompletedThisWeek(t, week_start, week_end) ==
    /\ t.completed_at # NoTime
    /\ t.completed_at >= week_start /\ t.completed_at <= week_end

\* get_week_boundaries() and the first count, db.query(Task).count().  The
\* route takes no user: the counts are over the tasks of all users.
GetWeeklyStats(r) ==
    LET q == Request("stats", 0, None, None, "")
        week == get_week_boundaries(now)
    IN
    /\ Arrive(r)
    /\ UNCHANGED <<tasks, history, nextId, nextHid, now>>
    /\ Put(r, [q EXCEPT !.pc = "total_completed",
                        !.stats.week_start = week[1],
                        !.stats.week_end = week[2],
                        !.stats.total_tasks = Cardinality(tasks)])

\* the other counts, one query each, on the table as it is committed when
\* the query runs; then the response
CountQuery(r) ==
    LET q == req[r]
        week_start == q.stats.week_start
        week_end == q.stats.week_end
    IN
    /\ q.op = "stats"
    /\ q.pc \in {"total_completed", "total_incomplete",
                 "tasks_created_this_week", "tasks_completed_this_week"}
    /\ UNCHANGED <<tasks, history, nextId, nextHid, now>>
    /\ Put(r,
         CASE q.pc = "total_completed" ->
                [q EXCEPT !.pc = "total_incomplete",
                          !.stats.total_completed =
                              Cardinality({t \in tasks : t.is_completed})]
           [] q.pc = "total_incomplete" ->
                [q EXCEPT !.pc = "tasks_created_this_week",
                          !.stats.total_incomplete =
                              Cardinality({t \in tasks : ~t.is_completed})]
           [] q.pc = "tasks_created_this_week" ->
                [q EXCEPT !.pc = "tasks_completed_this_week",
                          !.stats.tasks_created_this_week =
                              Cardinality({t \in tasks :
                                 CreatedThisWeek(t, week_start, week_end)})]
           [] q.pc = "tasks_completed_this_week" ->
                Respond([q EXCEPT !.stats.tasks_completed_this_week =
                              Cardinality({t \in tasks :
                                 CompletedThisWeek(t, week_start, week_end)})],
                        "ok", <<>>))

-----------------------------------------------------------------------------
(* The tables the queries are tried on *)

\* rows of task_history in the largest table tried
MaxLog == 25
\* the last page asked for
MaxPage == 3

\* The log of these requests on an empty database, one after the other,
\* the first at instant base, every commit one unit after the last:
\*   1: u1 POST /tasks {title: "a"}      2: u2 POST /tasks {title: "a"}
\*   3: u1 PATCH /tasks/1/complete       4: u2 PATCH /tasks/2/complete
\*   5: u1 PATCH /tasks/1/incomplete     6: u2 PATCH /tasks/2/incomplete
\*   7: as 3, and so on
LogTask(k) == IF k % 2 = 1 THEN 1 ELSE 2

LogOwner(i) == IF i = 1 THEN "u1" ELSE "u2"

LogAction(k) ==
    IF k <= 2 THEN CREATED
    ELSE IF ((k - 1) \div 2) % 2 = 1 THEN COMPLETED ELSE INCOMPLETED

LogDescription(k) ==
    CASE LogAction(k) = CREATED -> <<"Task created">>
      [] LogAction(k) = COMPLETED -> <<"Task marked as completed">>
      [] LogAction(k) = INCOMPLETED -> <<"Task marked as incomplete">>

\* request k commits its task at base + 2(k-1) and its history row next
LogRow(base, k) ==
    TaskHistory(k, LogTask(k), LogAction(k), LogDescription(k), base + 2 * k - 1)

\* task i after the first n requests (i <= n)
LogTaskRow(base, n, i) ==
    LET k == IF (n - i) % 2 = 0 THEN n ELSE n - 1
        t == base + 2 * (k - 1)
        task == Task(i, <<"a">>, None, LogOwner(i), base + 2 * (i - 1))
    IN IF LogAction(k) = CREATED THEN task
       ELSE [task EXCEPT !.is_completed = (LogAction(k) = COMPLETED),
                         !.completed_at = IF LogAction(k) = COMPLETED THEN t ELSE NoTime,
                         !.updated_at = t]

\* the first request arrives shortly before the second week begins
Epochs == (WeekLen - 5)..(WeekLen - 2)

\* the numbers of requests logged
LogSizes == {0, 1, 2, 3, 4, 7, MaxLog}

\* the queries' parameters
Pages == 1..MaxPage
Limits == {1, 2, 10}
Offsets == {NoOffset, 0, 1, 20}
TaskFilters == {0, 1, 2}
ActionFilters == {None, <<>>, <<COMPLETED>>}
\* limits the route refuses
BadLimits == {0, 101}

InitQuery ==
    /\ \E base \in Epochs, n \in LogSizes :
          /\ tasks = {LogTaskRow(base, n, i) : i \in {j \in {1, 2} : j <= n}}
          /\ history = {LogRow(base, k) : k \in 1..n}
          /\ nextId = (IF n < 2 THEN n ELSE 2) + 1
          /\ nextHid = n + 1
          /\ now = base + 2 * n
    /\ req = [r \in Slots |-> Idle]
    /\ resp = Idle
    /\ prev = Idle
    /\ deleted = {}
    /\ race = FALSE

NextQuery ==
    \/ Receive
    \/ \E r \in Slots :
         \/ \E page \in Pages, limit \in Limits, offset \in Offsets,
               i \in TaskFilters, a \in ActionFilters, u \in Users :
               GetHistoryPaginated(r, page, limit, offset, i, a, u)
         \/ \E page \in Pages, limit \in Limits \cup BadLimits, u \in Users :
               GetHistory(r, page, limit, NoOffset, 0, None, u)
         \/ GetWeeklyStats(r)
         \/ CountQuery(r)

\* the queries, on the tables the lifecycle operations leave
SpecQuery == InitQuery /\ [][NextQuery]_vars

-----------------------------------------------------------------------------
(* Specifications *)

\* identifiers requested: those issued so far and one that never was
Targets == 1..nextId

\* the requests that race are one user's
RaceUsers == {"u1"}
RaceCreates == {<<<<"b">>, <<"x">>>>}
RaceUpdates == {<<<<"b">>, <<"x">>>>}

Callers == IF race THEN RaceUsers ELSE Users
Creates == IF race THEN RaceCreates ELSE CreateBodies
Updates == IF race THEN RaceUpdates ELSE UpdateBodies

Next ==
    \/ Receive
    \/ \E r \in Slots :
         \/ \E b \in Creates, u \in Callers : CreateTask(r, b[1], b[2], u)
         \/ \E u \in Callers : ListTasks(r, u)
         \/ \E i \in Targets, u \in Callers : GetTask(r, i, u)
         \/ \E i \in Targets, b \in Updates, u \in Callers :
               UpdateTask(r, i, b[1], b[2], u)
         \/ \E i \in Targets, u \in Callers : MarkComplete(r, i, u)
         \/ \E i \in Targets, u \in Callers : MarkIncomplete(r, i, u)
         \/ \E i \in Targets, u \in Callers : DeleteTask(r, i, u)
         \/ Commit(r)
         \/ \E fails \in BOOLEAN : LogHistory(r, fails)
         \/ \E raises \in BOOLEAN : DeleteCommit(r, raises)

Spec == Init /\ [][Next]_vars

SpecRace == InitRace /\ [][Next]_vars

\* GET /stats/weekly served while other requests change the tables: each
\* count is a statement of its own and reads what is committed when it runs
NextStats ==
    \/ Next
    \/ \E r \in Slots : GetWeeklyStats(r)
    \/ \E r \in Slots : CountQuery(r)

SpecStats == InitRace /\ [][NextStats]_vars

TypeOK ==
    /\ \A t \in tasks : t.id \in 1..MaxTasks /\ t.user_id \in Users
    /\ \A h \in history : h.action_type \in ActionType
    /\ nextId \in 1..(MaxTasks + 1)
    /\ now \in InitClock..MaxClock

-----------------------------------------------------------------------------
(* Properties *)

\* the rows of task_history added since request q arrived
AddedSince(q) == {h \in history : h.history_id >= q.hid0}

LifecycleOps == {"create", "update", "delete", "complete", "incomplete"}

TargetedOps == {"get", "update", "delete", "complete", "incomplete"}

KindOf ==
    [create |-> CREATED, update |-> UPDATED, delete |-> DELETED,
     complete |-> COMPLETED, incomplete |-> INCOMPLETED]

\* the rows of task_history about task i
RowsOf(i) == {h \in history : h.task_id = i}

\* C1: for Create, Update, Delete, MarkComplete and MarkIncomplete, when the
\* history write of the operation fails the tasks table is what it was
\* before the operation: the task write and the history write commit
\* together or not at all.
C1_HistoryFailureLeavesTasks ==
    (resp.pc = "done" /\ resp.hist_failed) => tasks = resp.tasks0

\* the last COMPLETED or INCOMPLETED row of task i, by order of insertion
LastCompletion(i) ==
    LET rows == {h \in RowsOf(i) : h.action_type \in {COMPLETED, INCOMPLETED}}
    IN IF rows = {} THEN NoRow
       ELSE CHOOSE h \in rows : \A g \in rows : g.history_id <= h.history_id

\* C2: under any interleaving, no committed state of the tables that a
\* request can read holds a task mutation without its history row (a task
\* without its CREATED row, a completion flag that the last COMPLETED or
\* INCOMPLETED row does not account for), nor a history row whose mutation
\* is not committed (a DELETED row of a task still in the table).
C2_MutationPairedWithHistory ==
    \A t \in tasks :
       /\ \E h \in RowsOf(t.id) : h.action_type = CREATED
       /\ \A h \in RowsOf(t.id) : h.action_type # DELETED
       /\ t.is_completed =>
            LastCompletion(t.id) # NoRow /\ LastCompletion(t.id).action_type = COMPLETED
       /\ ~t.is_completed =>
            LastCompletion(t.id) = NoRow \/ LastCompletion(t.id).action_type = INCOMPLETED

\* request q addressed a task that was in the table, owned by another user
OwnedByOther(q) ==
    LET t == TaskById(q.tasks0, q.task_id) IN t # NoRow /\ t.user_id # q.user_id

\* C3 as stated: Get, Update, Delete, MarkComplete and MarkIncomplete on an
\* existing task of another user always answer 403, never not-found, and
\* not-found is answered only when no task has the identifier.
C3_OtherOwnerAlwaysForbidden ==
    (resp.pc = "done" /\ resp.op \in TargetedOps) =>
       /\ OwnedByOther(resp) => resp.res = "forbidden"
       /\ resp.res = "not_found" => TaskById(resp.tasks0, resp.task_id) = NoRow

\* the body of the PUT passes the route's validation
ValidUpdate(q) ==
    /\ TaskUpdate(q.title, q.description)
    /\ Truthy(q.title) \/ Truthy(q.description)
    /\ Truthy(q.title) => validate_title(q.title)
    /\ q.description # None => validate_description(q.description)

\* C3 (amended): Get, Delete, MarkComplete, MarkIncomplete, and an Update
\* whose body passes validation, on an existing task of another user always
\* answer 403; not-found is answered only when no task has the identifier.
\* (An Update whose body is rejected answers the validation error.)
C3_OtherOwnerForbiddenWhenValid ==
    (resp.pc = "done" /\ resp.op \in TargetedOps) =>
       /\ (OwnedByOther(resp) /\ (resp.op = "update" => ValidUpdate(resp)))
             => resp.res = "forbidden"
       /\ resp.res = "not_found" => TaskById(resp.tasks0, resp.task_id) = NoRow

C3_Witness ==
    resp.pc = "done" /\ resp.op = "update" /\ OwnedByOther(resp) /\ resp.res = "forbidden"

\* C4: in every state of the tasks table a task has a completed timestamp
\* if and only if its completion flag is true.
C4_CompletedAtIffCompleted ==
    \A t \in tasks : (t.completed_at # NoTime) <=> t.is_completed

C4_Witness ==
    /\ resp.op = "incomplete" /\ resp.res = "ok" /\ resp.task.is_completed
    /\ \E t \in tasks : t.id = resp.task_id /\ ~t.is_completed /\ t.completed_at = NoTime

\* C5: every successful Create, Update, Delete, MarkComplete, MarkIncomplete
\* appends exactly one history row, of kind CREATED, UPDATED, DELETED,
\* COMPLETED, INCOMPLETED respectively, for its task; also when the task is
\* already in the state asked for.  (The row a Delete appends goes with the
\* task.)
C5_OneHistoryRowPerMutation ==
    (resp.pc = "done" /\ resp.res = "ok" /\ resp.op \in LifecycleOps) =>
       \E h \in resp.logged :
          /\ resp.logged = {h}
          /\ h.action_type = KindOf[resp.op]
          /\ h.task_id = resp.task_id
          /\ h.history_id >= resp.hid0
          /\ AddedSince(resp) = IF resp.op = "delete" THEN {} ELSE {h}

C5_Witness ==
    /\ resp.op = "complete" /\ resp.res = "ok" /\ resp.task.is_completed
    /\ Cardinality(AddedSince(resp)) = 1

\* resp answers the request that followed the successful mutation prev, by
\* the same user on the same task
Follows(op1, op2) ==
    /\ prev.op = op1 /\ prev.res = "ok"
    /\ resp.pc = "done" /\ resp.op = op2
    /\ resp.task_id = prev.task_id /\ resp.user_id = prev.user_id

\* C6: a Create followed by a Get of the created task by its owner returns
\* the task with is_completed false and completed_at null, and task_history
\* holds exactly one CREATED row for it.
C6_CreateThenGet ==
    Follows("create", "get") =>
       /\ resp.res = "ok"
       /\ resp.view[1].id = prev.task_id
       /\ resp.view[1].title = prev.title
       /\ resp.view[1].description = prev.description
       /\ resp.view[1].is_completed = FALSE
       /\ resp.view[1].completed_at = NoTime
       /\ Cardinality({h \in RowsOf(prev.task_id) : h.action_type = CREATED}) = 1

C6_Witness == Follows("create", "get") /\ resp.view[1].description = <<"x">>

\* C7: for a task in either completion state, a MarkComplete followed at
\* once by a MarkIncomplete leaves it with is_completed false and
\* completed_at null, and adds exactly two history rows for it, COMPLETED
\* and INCOMPLETED, the COMPLETED one with the earlier timestamp.
C7_CompleteThenIncomplete ==
    (Follows("complete", "incomplete") /\ resp.res = "ok") =>
       /\ resp.view[1].is_completed = FALSE
       /\ resp.view[1].completed_at = NoTime
       /\ TaskById(tasks, resp.task_id) = resp.view[1]
       /\ \E c, i \in RowsOf(resp.task_id) :
             /\ {h \in RowsOf(resp.task_id) : h.history_id >= prev.hid0} = {c, i}
             /\ c.action_type = COMPLETED
             /\ i.action_type = INCOMPLETED
             /\ c.timestamp < i.timestamp

C7_Witness ==
    Follows("complete", "incomplete") /\ resp.res = "ok" /\ prev.task.is_completed

\* C8: an Update that supplies neither title nor description answers a
\* validation error, changes no task and appends no history row; an Update
\* that supplies at least one of the two, with valid values, is not
\* rejected for supplying no field.
C8_NoFieldsRejectedOnly ==
    (resp.pc = "done" /\ resp.op = "update") =>
       /\ (resp.title = None /\ resp.description = None) =>
             /\ resp.res = "no_fields"
             /\ tasks = resp.tasks0
             /\ AddedSince(resp) = {}
       /\ resp.res = "no_fields" => (resp.title = None /\ resp.description = None)

\* C9: once a Delete has succeeded, the task is gone for good: every later
\* Get of its identifier, by any caller, answers not-found, and no List
\* returns it.
C9_DeletedStaysNotFound ==
    \A i \in deleted :
       /\ TaskById(tasks, i) = NoRow
       /\ (resp.pc = "done" /\ resp.op = "get" /\ resp.task_id = i)
             => resp.res = "not_found"
       /\ (resp.pc = "done" /\ resp.op = "list")
             => \A k \in 1..Len(resp.view) : resp.view[k].id # i

C9_Witness ==
    /\ resp.pc = "done" /\ resp.op = "get" /\ resp.task_id \in deleted
    /\ resp.user_id = "u2" /\ tasks # {}

\* a step leaves the rows of task_history as they are, but for the rows of
\* a task that a DELETE removes in this very step
AppendOnly ==
    /\ \A h \in history \ history' :
          /\ TaskById(tasks, h.task_id) # NoRow
          /\ TaskById(tasks', h.task_id) = NoRow
          /\ \E r \in Slots : /\ req[r].op = "delete"
                              /\ req[r].pc = "logged"
                              /\ req[r].task_id = h.task_id
    /\ \A h \in history, g \in history' : g.history_id = h.history_id => g = h

\* C10: a history row, once appended, is never modified, and is removed
\* only by the cascade of the Delete of its task: every other operation
\* leaves all the rows there were, unchanged.
C10_HistoryAppendOnly == [][AppendOnly]_vars

C10_Witness ==
    /\ resp.op = "delete" /\ resp.res = "ok"
    /\ history # {} /\ tasks # {}

\* the summary an UPDATED row carries when the task went from old to new
SummaryOf(old, new) ==
    Join(<<"; ">>,
         (IF new.title # old.title
          THEN << <<"title: '">> \o old.title \o <<"' -> '">> \o new.title \o <<"'">> >>
          ELSE <<>>)
         \o (IF new.description # old.description
             THEN << <<"description updated">> >>
             ELSE <<>>))

\* C16: the description of the UPDATED row a successful Update writes holds
\* the segment "title: '<old>' -> '<new>'" exactly when the task's title
\* changed and the segment "description updated" exactly when the task's
\* description changed, joined by "; "; it is the empty string when neither
\* changed, as for an Update that supplies a title only.
C16_SummaryTellsWhatChanged ==
    (resp.pc = "done" /\ resp.op = "update" /\ resp.res = "ok") =>
       \A h \in resp.logged : h.description = SummaryOf(resp.task, resp.view[1])

\* C17: a successful Update changes only the fields supplied and
\* updated_at: a field not supplied keeps its value, the task's id, owner,
\* completion flag, completed_at and created_at are unchanged, and every
\* other task is as it was.
C17_UpdateChangesSuppliedOnly ==
    (resp.pc = "done" /\ resp.op = "update" /\ resp.res = "ok") =>
       LET old == TaskById(resp.tasks0, resp.task_id)
           new == TaskById(tasks, resp.task_id)
       IN /\ old # NoRow /\ new # NoRow
          /\ new.title = IF resp.title # None THEN resp.title ELSE old.title
          /\ new.description =
                IF resp.description # None THEN resp.description ELSE old.description
          /\ new.updated_at > old.updated_at
          /\ \A c \in {"id", "user_id", "is_completed", "completed_at", "created_at"} :
                new[c] = old[c]
          /\ tasks \ {new} = resp.tasks0 \ {old}
          /\ resp.view = <<new>>

C17_Witness ==
    /\ resp.pc = "done" /\ resp.op = "update" /\ resp.res = "ok"
    /\ resp.title # None /\ resp.description = None
    /\ resp.task.description = <<"x">> /\ resp.task.title # resp.title
    /\ Cardinality(tasks) = 2

\* a step that adds a DELETED row adds it for a task that is in the table
\* before and after the step, with the title its Delete read in the
\* description; a step that removes a task finds its DELETED row in
\* task_history
LoggedBeforeRemoved ==
    /\ \A h \in history' \ history :
          h.action_type = DELETED =>
             /\ TaskById(tasks, h.task_id) # NoRow
             /\ TaskById(tasks', h.task_id) = TaskById(tasks, h.task_id)
             /\ \E r \in Slots :
                   /\ req[r].op = "delete" /\ req[r].task_id = h.task_id
                   /\ h.description = <<"Task deleted: ">> \o req[r].task.title
    /\ \A t \in tasks :
          TaskById(tasks', t.id) = NoRow =>
             \E h \in history : h.task_id = t.id /\ h.action_type = DELETED

\* C18: Delete appends the DELETED row, with description
\* 'Task deleted: <title>', strictly before the task is removed from the
\* tasks table; in no execution is the task removed first and the DELETED
\* row written afterwards.
C18_DeletedRowBeforeRemoval == [][LoggedBeforeRemoved]_vars

C18_Witness ==
    /\ resp.pc = "done" /\ resp.op = "delete" /\ resp.res = "ok"
    /\ TaskById(resp.tasks0, resp.task_id) # NoRow
    /\ TaskById(tasks, resp.task_id) = NoRow
    /\ \E h \in resp.logged :
          /\ h.action_type = DELETED
          /\ h.description = <<"Task deleted: ">> \o resp.task.title
          /\ h.timestamp < now

\* the fields of a Create body that break the rules for a task
Offending(title, description) ==
    {f \in {"title"} : Len(Trim(title)) = 0 \/ Len(title) > 255}
    \cup {f \in {"description"} : description # None /\ Len(description) > 5000}

\* the fields an invalid-input answer names
Named(q) ==
    CASE q.res = "invalid" -> q.meta
      [] q.res = "invalid_title" -> {"title"}
      [] q.res = "invalid_description" -> {"description"}
      [] OTHER -> {}

\* C19: a Create whose title is empty after trimming or longer than 255
\* characters, or whose description is longer than 5000 characters, answers
\* invalid input, naming a field at fault and no other, and leaves the
\* tasks table and task_history as they were.
C19_InvalidCreateChangesNothing ==
    (resp.pc = "done" /\ resp.op = "create"
        /\ Offending(resp.title, resp.description) # {}) =>
       /\ resp.res \in {"invalid", "invalid_title", "invalid_description"}
       /\ Named(resp) # {}
       /\ Named(resp) \subseteq Offending(resp.title, resp.description)
       /\ tasks = resp.tasks0
       /\ AddedSince(resp) = {} /\ nextHid = resp.hid0

C19_Witness ==
    /\ resp.pc = "done" /\ resp.op = "create" /\ resp.res = "invalid_title"
    /\ resp.title = <<" ">> /\ tasks # {} /\ history # {}

\* resp is the answer not-found or ownership-violation to a Get, Update,
\* Delete, MarkComplete or MarkIncomplete
Rejected ==
    /\ resp.pc = "done" /\ resp.op \in TargetedOps
    /\ resp.res \in {"not_found", "forbidden"}

\* C20: a Get, Update, Delete, MarkComplete or MarkIncomplete that answers
\* not-found or ownership-violation leaves the tasks table and task_history
\* exactly as they were: the tables are those the request found, no history
\* row is added and no updated_at is touched, and the step that answers
\* changes neither table.
C20_RejectedChangesNothing ==
    /\ [](Rejected => (tasks = resp.tasks0 /\ AddedSince(resp) = {}
                          /\ nextHid = resp.hid0))
    /\ [][Rejected' /\ ~Rejected => UNCHANGED <<tasks, history>>]_vars

C20_Witness ==
    /\ Rejected /\ resp.res = "forbidden" /\ resp.op = "complete"
    /\ \E t \in tasks : t.id = resp.task_id /\ t.user_id # resp.user_id
    /\ history # {}

\* resp is the answer to a List
Listed == resp.pc = "done" /\ resp.op = "list"

\* C14: List for owner u returns exactly the tasks u owns, each once, every
\* incomplete task before every complete one and, within each group, in
\* strictly descending order of created_at; List changes neither table.
C14_ListOwnedInOrder ==
    /\ [](Listed =>
            /\ {resp.view[k] : k \in 1..Len(resp.view)}
                  = {t \in tasks : t.user_id = resp.user_id}
            /\ \A j, k \in 1..Len(resp.view) :
                  j < k =>
                     /\ resp.view[j] # resp.view[k]
                     /\ resp.view[j].is_completed => resp.view[k].is_completed
                     /\ resp.view[j].is_completed = resp.view[k].is_completed
                           => resp.view[j].created_at > resp.view[k].created_at
            /\ tasks = resp.tasks0 /\ nextHid = resp.hid0)
    /\ [][Listed' /\ ~Listed => UNCHANGED <<tasks, history>>]_vars

\* A complete, B incomplete and newer, C incomplete and newest: [C, B, A]
C14_Witness ==
    /\ Listed /\ Len(resp.view) = 3
    /\ resp.view[3].is_completed
    /\ ~resp.view[2].is_completed /\ ~resp.view[1].is_completed
    /\ resp.view[3].created_at < resp.view[2].created_at
    /\ resp.view[2].created_at < resp.view[1].created_at

\* resp is the result of a call of get_history_paginated
Paged == resp.pc = "done" /\ resp.op = "history" /\ resp.res = "ok"

\* the rows of task_history about the tasks of user u
RowsOwnedBy(u) ==
    {h \in history : TaskById(tasks, h.task_id) # NoRow
                     /\ TaskById(tasks, h.task_id).user_id = u}

\* C11: GetHistoryPaginated called for owner u returns only history rows of
\* tasks u owns, and its total count is the count of u's matching rows:
\* what other users do to their tasks shows in neither.
C11_HistoryOfCallerOnly ==
    Paged =>
       /\ \A k \in 1..Len(resp.view) : resp.view[k] \in RowsOwnedBy(resp.user_id)
       /\ resp.pagination.total_count =
             Cardinality(Matching(RowsOwnedBy(resp.user_id), resp.task_id,
                                  resp.args.action_type))

\* the rows the filters of the call resp answers let through
MatchingRows ==
    {h \in history :
        /\ resp.task_id # 0 => h.task_id = resp.task_id
        /\ resp.args.action_type \notin {None, <<>>}
              => h.action_type = resp.args.action_type[1]}

\* the rows returned are those at positions first, first + 1, ... of the
\* matching rows in descending order of timestamp, up to limit of them
SliceFrom(first) ==
    LET n == Cardinality(MatchingRows)
        last == IF first + resp.args.limit < n THEN first + resp.args.limit ELSE n
    IN /\ Len(resp.view) = IF last > first THEN last - first ELSE 0
       /\ \A k \in 1..Len(resp.view) :
             /\ resp.view[k] \in MatchingRows
             /\ Cardinality({h \in MatchingRows :
                               h.timestamp > resp.view[k].timestamp})
                   = first + k - 1

\* C12: with no offset, 1 <= limit <= 100, page >= 1 and N matching rows,
\* the rows returned are positions (page-1)*limit .. min(page*limit, N)-1
\* of the descending order of timestamp, total_pages is ceil(N/limit),
\* has_next is current_page < total_pages and has_prev is current_page > 1.
C12_PageOfHistory ==
    (Paged /\ resp.args.offset = NoOffset) =>
       LET n == Cardinality(MatchingRows)
           p == resp.pagination
       IN /\ SliceFrom((resp.args.page - 1) * resp.args.limit)
          /\ p.total_count = n
          /\ p.page_size = resp.args.limit
          /\ p.total_pages * resp.args.limit >= n
          /\ (p.total_pages - 1) * resp.args.limit < n
          /\ p.current_page = resp.args.page
          /\ p.has_next = (p.current_page < p.total_pages)
          /\ p.has_prev = (p.current_page > 1)

\* 25 matching rows, limit 10, page 3: 5 rows, no next page, a previous one
C12_Witness ==
    /\ Paged /\ resp.args.offset = NoOffset
    /\ Cardinality(MatchingRows) = 25
    /\ resp.args.limit = 10 /\ resp.args.page = 3
    /\ Len(resp.view) = 5
    /\ resp.pagination.total_pages = 3
    /\ ~resp.pagination.has_next /\ resp.pagination.has_prev

\* C13: given an offset, 0 included, get_history_paginated slices from the
\* offset whatever the page and reports current_page = floor(offset/limit)
\* + 1; given none, it slices from (page-1)*limit and reports the page.
C13_OffsetBeforePage ==
    Paged =>
       LET p == resp.pagination
           offset == resp.args.offset
           limit == resp.args.limit
       IN IF offset # NoOffset
          THEN /\ SliceFrom(offset)
               /\ (p.current_page - 1) * limit <= offset
               /\ offset < p.current_page * limit
          ELSE /\ SliceFrom((resp.args.page - 1) * limit)
               /\ p.current_page = resp.args.page

\* offset 0 given with page 2: the first rows, reported as page 1
C13_Witness ==
    /\ Paged /\ resp.args.offset = 0 /\ resp.args.page = 2
    /\ resp.args.limit = 2 /\ Cardinality(MatchingRows) > 2
    /\ resp.pagination.current_page = 1
    /\ \A h \in MatchingRows : h.timestamp <= resp.view[1].timestamp

\* resp is the answer to a GetWeeklyStats
Counted == resp.pc = "done" /\ resp.op = "stats" /\ resp.res = "ok"

\* C15: tasks_created_this_week counts a task created at week_start and
\* not a task created one unit of the clock before week_start;
\* tasks_completed_this_week counts exactly the tasks whose completed_at
\* lies in the same window.
C15_WeekWindow ==
    Counted =>
       LET week == resp.stats.week_start .. resp.stats.week_end IN
       /\ resp.stats.tasks_created_this_week
             = Cardinality({t \in tasks : t.created_at \in week})
       /\ resp.stats.tasks_completed_this_week
             = Cardinality({t \in tasks : t.is_completed /\ t.completed_at \in week})
       /\ \A t \in tasks :
             /\ t.created_at = resp.stats.week_start
                   => resp.stats.tasks_created_this_week >= 1
             /\ t.created_at = resp.stats.week_start - 1
                   => resp.stats.tasks_created_this_week < Cardinality(tasks)

\* one task created at week_start, the other before; one completed since
C15_Witness ==
    /\ Counted
    /\ \E t \in tasks : t.created_at = resp.stats.week_start
    /\ \E t \in tasks : t.created_at < resp.stats.week_start
    /\ resp.stats.tasks_created_this_week = 1
    /\ resp.stats.tasks_completed_this_week = 1

C22_StatsAddUp ==
    Counted =>
       /\ resp.stats.total_completed + resp.stats.total_incomplete
             = resp.stats.total_tasks
       /\ resp.stats.tasks_created_this_week <= resp.stats.total_tasks
       /\ resp.stats.tasks_completed_this_week <= resp.stats.total_completed

====
